---- MODULE Spec2Model ----
(***************************************************************************)
(* Model of plugin/convert.py: the bookmarklet inliner.  The script reads  *)
(* plugin.js, strips comments with two regular expressions, removes        *)
(* newlines and four-space indentation, wraps the text as a "javascript:"  *)
(* URI, writes plugin-inline.js and copies it to frontend/public/.         *)
(*                                                                         *)
(* Texts are sequences of one-character strings.  The regular-expression   *)
(* substitutions are modelled as the left-to-right, non-overlapping scans  *)
(* re.sub performs.                                                        *)
(***************************************************************************)
EXTENDS Naturals, Sequences, FiniteSets

VARIABLES
    srcFile,    \* plugin.js on disk: [exists, readable, data]
    outFile,    \* plugin/plugin-inline.js on disk: [exists, data]
    frontFile,  \* frontend/public/plugin-inline.js on disk: [exists, data]
    content,    \* the script's variable `content`
    pc,         \* the statement the script is about to execute
    out0,       \* history: outFile as it was before the run
    front0      \* history: frontFile as it was before the run

vars == << srcFile, outFile, frontFile, content, pc, out0, front0 >>

-----------------------------------------------------------------------------
(* Bounds of the model.                                                    *)

\* longest enumerated source text of a whole run (Spec)
MaxSrcLen == 3

\* longest enumerated argument of a single transformation (SpecFn)
MaxLen == 5

\* the characters enumerated texts are built from: a word character, a
\* space, a newline, the two comment delimiters' characters and a colon
Alphabet == { "a", " ", "\n", "/", "*", ":" }

RECURSIVE TextsOfLen(_)
TextsOfLen(n) ==
    IF n = 0 THEN { << >> }
    ELSE { Append(s, c) : s \in TextsOfLen(n - 1), c \in Alphabet }

TextsUpTo(n) == UNION { TextsOfLen(k) : k \in 0..n }

-----------------------------------------------------------------------------
(* Named texts: the examples of the specification and a few more.          *)

LineCommentExample == <<
    "c", "o", "n", "s", "t", " ", "x", " ", "=", " ", "1", ";", " ", "/",
    "/", " ", "c", "o", "m", "m", "e", "n", "t", "\n", "c", "o", "n", "s",
    "t", " ", "y", " ", "=", " ", "2", ";" >>

LineCommentExpected == <<
    "c", "o", "n", "s", "t", " ", "x", " ", "=", " ", "1", ";", " ", "\n",
    "c", "o", "n", "s", "t", " ", "y", " ", "=", " ", "2", ";" >>

UrlExample == <<
    "f", "e", "t", "c", "h", "(", "\"", "h", "t", "t", "p", "s", ":", "/",
    "/", "e", "x", "a", "m", "p", "l", "e", ".", "c", "o", "m", "\"", ")" >>

BlockCommentExample == <<
    "/", "*", " ", "h", "e", "a", "d", "e", "r", "\n", "m", "u", "l", "t",
    "i", "\n", "l", "i", "n", "e", " ", "*", "/", "\n", "c", "o", "d", "e",
    "(", ")", ";" >>

BlockCommentExpected == << "\n", "c", "o", "d", "e", "(", ")", ";" >>

NestedBlockExample == <<
    "/", "*", " ", "a", " ", "/", "*", " ", "b", " ", "*", "/", " ", "c",
    " ", "*", "/" >>

NestedBlockExpected == << " ", "c", " ", "*", "/" >>

UnclosedBlockExample == << "x", " ", "/", "*", " ", "y" >>

EightSpacesExample == << " ", " ", " ", " ", " ", " ", " ", " ", "x" >>

ThreeSpacesExample == << " ", " ", " ", "x" >>

TabsExample == << "\t", "\t", "\t", "\t", "x" >>

PunctCommentExample == <<
    ")", ";", "/", "/", " ", "c", "o", "m", "m", "e", "n", "t", "\n", "n",
    "e", "x", "t", "(", ")", ";" >>

MixedCommentExample == << "/", "*", "a", "/", "/", "*", "/" >>

WrapperExample == <<
    "j", "a", "v", "a", "s", "c", "r", "i", "p", "t", ":", "(", "(", ")",
    "=", ">", "{", "}", ")", "(", ")" >>

Prefix == <<
    "j", "a", "v", "a", "s", "c", "r", "i", "p", "t", ":", "(", "(", ")",
    "=", ">", "{" >>

Suffix == << "}", ")", "(", ")" >>

Examples ==
    { LineCommentExample, UrlExample, BlockCommentExample, NestedBlockExample,
      UnclosedBlockExample, EightSpacesExample, ThreeSpacesExample,
      TabsExample, PunctCommentExample, MixedCommentExample, WrapperExample }

SrcInputs == TextsUpTo(MaxSrcLen) \cup Examples

FnInputs == TextsUpTo(MaxLen) \cup Examples

-----------------------------------------------------------------------------
(* Character classes of Python's re module, restricted to ASCII.           *)

\* \s
WhitespaceChars == { " ", "\t", "\n", "\r", "\f" }

\* \w
WordChars ==
    { "a", "b", "c", "d", "e", "f", "g", "h", "i", "j", "k", "l", "m",
      "n", "o", "p", "q", "r", "s", "t", "u", "v", "w", "x", "y", "z",
      "A", "B", "C", "D", "E", "F", "G", "H", "I", "J", "K", "L", "M",
      "N", "O", "P", "Q", "R", "S", "T", "U", "V", "W", "X", "Y", "Z",
      "0", "1", "2", "3", "4", "5", "6", "7", "8", "9", "_" }

\* s[i] is c (FALSE past either end of s)
At(s, i, c) == i >= 1 /\ i <= Len(s) /\ s[i] = c

-----------------------------------------------------------------------------
(* re.sub(r'(\s|\w)//(?!/)[^\n]*', '', content)                            *)

\* the pattern's fixed part matches at position i: one whitespace or word
\* character, two slashes, and no third slash
\* (as it would be with the leading character class dropped: any character)
LineMatchAtAnyChar(s, i) ==
    /\ i <= Len(s)
    /\ At(s, i + 1, "/")
    /\ At(s, i + 2, "/")
    /\ ~At(s, i + 3, "/")

LineMatchAt(s, i) ==
    /\ i <= Len(s)
    /\ s[i] \in WhitespaceChars \cup WordChars
    /\ At(s, i + 1, "/")
    /\ At(s, i + 2, "/")
    /\ ~At(s, i + 3, "/")

\* [^\n]* from position i: the first position not consumed
RECURSIVE LineEnd(_, _)
LineEnd(s, i) ==
    IF i > Len(s) \/ s[i] = "\n" THEN i ELSE LineEnd(s, i + 1)

RECURSIVE StripLineFrom(_, _)
StripLineFrom(s, i) ==
    IF i > Len(s) THEN << >>
    ELSE IF LineMatchAt(s, i) THEN StripLineFrom(s, LineEnd(s, i + 3))
    ELSE << s[i] >> \o StripLineFrom(s, i + 1)

StripLineComments(s) == StripLineFrom(s, 1)

-----------------------------------------------------------------------------
(* re.sub(r'/\*.*?\*/', '', content, flags=re.DOTALL)                      *)

\* the first position j >= i where "*/" starts, or 0 when there is none
RECURSIVE CloseFrom(_, _)
CloseFrom(s, i) ==
    IF i + 1 > Len(s) THEN 0
    ELSE IF s[i] = "*" /\ s[i + 1] = "/" THEN i
    ELSE CloseFrom(s, i + 1)

\* the last position j >= i where "*/" starts, or 0 when there is none
RECURSIVE LastCloseFrom(_, _)
LastCloseFrom(s, i) ==
    IF i + 1 > Len(s) THEN 0
    ELSE LET later == LastCloseFrom(s, i + 1)
         IN  IF later # 0 THEN later
             ELSE IF s[i] = "*" /\ s[i + 1] = "/" THEN i ELSE 0

\* (as it would be with the greedy .* in place of the lazy .*?)
BlockCloseGreedy(s, i) == LastCloseFrom(s, i + 2)

\* .*? is lazy: the match that opens at i ends at the nearest "*/" that
\* starts at or after i + 2
BlockClose(s, i) == CloseFrom(s, i + 2)

BlockOpenAt(s, i) == At(s, i, "/") /\ At(s, i + 1, "*")

RECURSIVE StripBlockFrom(_, _)
StripBlockFrom(s, i) ==
    IF i > Len(s) THEN << >>
    ELSE IF BlockOpenAt(s, i) /\ BlockClose(s, i) # 0
         THEN StripBlockFrom(s, BlockClose(s, i) + 2)
    ELSE << s[i] >> \o StripBlockFrom(s, i + 1)

StripBlockComments(s) == StripBlockFrom(s, 1)

-----------------------------------------------------------------------------
(* re.sub(r'\n', '', content) and re.sub(r'    ', '', content)             *)

RECURSIVE RemoveNewlinesFrom(_, _)
RemoveNewlinesFrom(s, i) ==
    IF i > Len(s) THEN << >>
    ELSE IF s[i] = "\n" THEN RemoveNewlinesFrom(s, i + 1)
    ELSE << s[i] >> \o RemoveNewlinesFrom(s, i + 1)

RemoveNewlines(s) == RemoveNewlinesFrom(s, 1)

\* the pattern of four spaces matches at position i
IndentAt(s, i) == \A k \in 0..3 : At(s, i + k, " ")

\* the first position after the pattern's match at i
RECURSIVE SpacesEnd(_, _)
SpacesEnd(s, i) == IF At(s, i, " ") THEN SpacesEnd(s, i + 1) ELSE i

\* (as it would be with the pattern ' {4,}': the whole run is consumed)
IndentEndGreedy(s, i) == SpacesEnd(s, i)

IndentEnd(s, i) == i + 4

RECURSIVE RemoveIndentFrom(_, _)
RemoveIndentFrom(s, i) ==
    IF i > Len(s) THEN << >>
    ELSE IF IndentAt(s, i) THEN RemoveIndentFrom(s, IndentEnd(s, i))
    ELSE << s[i] >> \o RemoveIndentFrom(s, i + 1)

RemoveIndent(s) == RemoveIndentFrom(s, 1)

CollapseWhitespace(s) == RemoveIndent(RemoveNewlines(s))

-----------------------------------------------------------------------------
(* 'javascript:(()=>{' + content + '})()'                                  *)

\* (as it would be with the invoking "()" left off the suffix)
WrapNoCall(s) == Prefix \o s \o << "}", ")" >>

Wrap(s) == Prefix \o s \o Suffix

-----------------------------------------------------------------------------
(* Files, and the order of the script's statements.                        *)

Absent == [exists |-> FALSE, data |-> << >>]

File(d) == [exists |-> TRUE, data |-> d]

\* what a destination may hold before the run
OldFile == File(<< "o", "l", "d" >>)

\* (as it would be with the wrapping done before the comment stripping)
StmtsWrapFirst ==
    << "read", "wrap", "stripLine", "stripBlock", "rmNewline", "rmIndent",
       "openOut", "writeOut", "copyOpen", "copyData", "copyStat", "report",
       "done" >>

\* the statements of the script, top to bottom
Stmts ==
    << "read", "stripLine", "stripBlock", "rmNewline", "rmIndent", "wrap",
       "openOut", "writeOut", "copyOpen", "copyData", "copyStat", "report",
       "done" >>

\* the statement that follows statement p
After(p) == Stmts[(CHOOSE i \in 1..(Len(Stmts) - 1) : Stmts[i] = p) + 1]

\* the proper prefixes of d: what a write that fails part-way leaves behind
ProperPrefixes(d) == { SubSeq(d, 1, k) : k \in 0..(Len(d) - 1) }

-----------------------------------------------------------------------------
(* The run.                                                                *)

Init ==
    /\ srcFile \in { [exists |-> FALSE, readable |-> FALSE, data |-> << >>] }
                   \cup { [exists |-> TRUE, readable |-> r, data |-> s] :
                              r \in BOOLEAN, s \in SrcInputs }
    /\ outFile \in { Absent, OldFile }
    /\ frontFile \in { Absent, OldFile }
    /\ content = << >>
    /\ pc = "read"
    /\ out0 = outFile
    /\ front0 = frontFile

\* (as it would be with the failure swallowed and an empty text carried on)
ReadFailIgnored ==
    /\ pc = "read"
    /\ ~(srcFile.exists /\ srcFile.readable)
    /\ content' = << >>
    /\ pc' = After("read")
    /\ UNCHANGED << srcFile, outFile, frontFile, out0, front0 >>

\* with open(INPUT_FILE, 'r') as f: content = f.read()
ReadOk ==
    /\ pc = "read"
    /\ srcFile.exists /\ srcFile.readable
    /\ content' = srcFile.data
    /\ pc' = After("read")
    /\ UNCHANGED << srcFile, outFile, frontFile, out0, front0 >>

\* open() raises: the script ends with the traceback
ReadFail ==
    /\ pc = "read"
    /\ ~(srcFile.exists /\ srcFile.readable)
    /\ pc' = "readError"
    /\ UNCHANGED << srcFile, outFile, frontFile, content, out0, front0 >>

StripLineStep ==
    /\ pc = "stripLine"
    /\ content' = StripLineComments(content)
    /\ pc' = After("stripLine")
    /\ UNCHANGED << srcFile, outFile, frontFile, out0, front0 >>

StripBlockStep ==
    /\ pc = "stripBlock"
    /\ content' = StripBlockComments(content)
    /\ pc' = After("stripBlock")
    /\ UNCHANGED << srcFile, outFile, frontFile, out0, front0 >>

RemoveNewlinesStep ==
    /\ pc = "rmNewline"
    /\ content' = RemoveNewlines(content)
    /\ pc' = After("rmNewline")
    /\ UNCHANGED << srcFile, outFile, frontFile, out0, front0 >>

RemoveIndentStep ==
    /\ pc = "rmIndent"
    /\ content' = RemoveIndent(content)
    /\ pc' = After("rmIndent")
    /\ UNCHANGED << srcFile, outFile, frontFile, out0, front0 >>

WrapStep ==
    /\ pc = "wrap"
    /\ content' = Wrap(content)
    /\ pc' = After("wrap")
    /\ UNCHANGED << srcFile, outFile, frontFile, out0, front0 >>

\* open(OUTPUT_FILE, 'w') succeeds: the file is created or truncated
OpenOutOk ==
    /\ pc = "openOut"
    /\ outFile' = File(<< >>)
    /\ pc' = After("openOut")
    /\ UNCHANGED << srcFile, frontFile, content, out0, front0 >>

\* open(OUTPUT_FILE, 'w') raises (directory missing or not writable)
OpenOutFail ==
    /\ pc = "openOut"
    /\ pc' = "writeError"
    /\ UNCHANGED << srcFile, outFile, frontFile, content, out0, front0 >>

\* (as it would be with a line terminator written after the text)
WriteOutOkNewline ==
    /\ pc = "writeOut"
    /\ outFile' = File(content \o << "\n" >>)
    /\ pc' = After("writeOut")
    /\ UNCHANGED << srcFile, frontFile, content, out0, front0 >>

\* f.write(content) and the close at the end of the with block succeed
WriteOutOk ==
    /\ pc = "writeOut"
    /\ outFile' = File(content)
    /\ pc' = After("writeOut")
    /\ UNCHANGED << srcFile, frontFile, content, out0, front0 >>

\* (as it would be with the failed write swallowed and the copy still made)
WriteOutFailIgnored ==
    /\ pc = "writeOut"
    /\ \E d \in ProperPrefixes(content) : outFile' = File(d)
    /\ pc' = After("writeOut")
    /\ UNCHANGED << srcFile, frontFile, content, out0, front0 >>

\* the write or the flush at close raises (disk full): part of the text is
\* in the file
WriteOutFail ==
    /\ pc = "writeOut"
    /\ \E d \in ProperPrefixes(content) : outFile' = File(d)
    /\ pc' = "writeError"
    /\ UNCHANGED << srcFile, frontFile, content, out0, front0 >>

\* shutil.copy2 opens FRONTEND_PUBLIC for writing: created or truncated
CopyOpenOk ==
    /\ pc = "copyOpen"
    /\ frontFile' = File(<< >>)
    /\ pc' = After("copyOpen")
    /\ UNCHANGED << srcFile, outFile, content, out0, front0 >>

\* shutil.copy2 cannot open FRONTEND_PUBLIC (directory missing or not
\* writable)
CopyOpenFail ==
    /\ pc = "copyOpen"
    /\ pc' = "copyError"
    /\ UNCHANGED << srcFile, outFile, frontFile, content, out0, front0 >>

\* shutil.copy2 copies the bytes of OUTPUT_FILE
CopyDataOk ==
    /\ pc = "copyData"
    /\ frontFile' = File(outFile.data)
    /\ pc' = After("copyData")
    /\ UNCHANGED << srcFile, outFile, content, out0, front0 >>

\* the copy raises part-way (disk full)
CopyDataFail ==
    /\ pc = "copyData"
    /\ \E d \in ProperPrefixes(outFile.data) : frontFile' = File(d)
    /\ pc' = "copyError"
    /\ UNCHANGED << srcFile, outFile, content, out0, front0 >>

\* shutil.copy2 copies the metadata (copystat)
CopyStatOk ==
    /\ pc = "copyStat"
    /\ pc' = After("copyStat")
    /\ UNCHANGED << srcFile, outFile, frontFile, content, out0, front0 >>

\* copystat raises (the frontend file belongs to another user)
CopyStatFail ==
    /\ pc = "copyStat"
    /\ pc' = "copyError"
    /\ UNCHANGED << srcFile, outFile, frontFile, content, out0, front0 >>

\* the two status lines
Report ==
    /\ pc = "report"
    /\ pc' = After("report")
    /\ UNCHANGED << srcFile, outFile, frontFile, content, out0, front0 >>

Next ==
    \/ ReadOk
    \/ ReadFail
    \/ StripLineStep
    \/ StripBlockStep
    \/ RemoveNewlinesStep
    \/ RemoveIndentStep
    \/ WrapStep
    \/ OpenOutOk
    \/ OpenOutFail
    \/ WriteOutOk
    \/ WriteOutFail
    \/ CopyOpenOk
    \/ CopyOpenFail
    \/ CopyDataOk
    \/ CopyDataFail
    \/ CopyStatOk
    \/ CopyStatFail
    \/ Report

Spec == Init /\ [][Next]_vars

-----------------------------------------------------------------------------
(* Each transformation applied on its own to an enumerated text.           *)

InitFn ==
    /\ srcFile \in { [exists |-> TRUE, readable |-> TRUE, data |-> s] :
                         s \in FnInputs }
    /\ outFile = Absent
    /\ frontFile = Absent
    /\ content = srcFile.data
    /\ pc = "unit"
    /\ out0 = outFile
    /\ front0 = frontFile

UnitStripLine ==
    /\ pc = "unit"
    /\ content' = StripLineComments(content)
    /\ pc' = "unitLine"
    /\ UNCHANGED << srcFile, outFile, frontFile, out0, front0 >>

UnitStripBlock ==
    /\ pc = "unit"
    /\ content' = StripBlockComments(content)
    /\ pc' = "unitBlock"
    /\ UNCHANGED << srcFile, outFile, frontFile, out0, front0 >>

UnitCollapse ==
    /\ pc = "unit"
    /\ content' = CollapseWhitespace(content)
    /\ pc' = "unitCollapse"
    /\ UNCHANGED << srcFile, outFile, frontFile, out0, front0 >>

NextFn ==
    \/ UnitStripLine
    \/ UnitStripBlock
    \/ UnitCollapse

SpecFn == InitFn /\ [][NextFn]_vars

-----------------------------------------------------------------------------
(* Vocabulary of the properties.                                           *)

\* the text of plugin.js
Source == srcFile.data

\* the statements at which plugin-inline.js has been written and closed
Written == { "copyOpen", "copyData", "copyStat", "report", "done", "copyError" }

\* the comment-stripped, whitespace-collapsed body of a text
Body(s) == CollapseWhitespace(StripBlockComments(StripLineComments(s)))

Least(S) == CHOOSE x \in S : \A y \in S : x <= y

\* "//" starts at position i of s
SlashesAt(s, i) == At(s, i, "/") /\ At(s, i + 1, "/")

\* a position where a line-comment removal may start: a whitespace or word
\* character, then "//", then anything but a third slash
TriggerAt(s, i) ==
    /\ i >= 1 /\ i + 2 <= Len(s)
    /\ s[i] \in WhitespaceChars \cup WordChars
    /\ SlashesAt(s, i + 1)
    /\ ~At(s, i + 3, "/")

\* the positions of s where a line-comment removal may start
Triggers(s) == { i \in 1..Len(s) : TriggerAt(s, i) }

\* t begins with the first n characters of s
SamePrefix(s, t, n) ==
    Len(t) >= n /\ \A j \in 1..n : t[j] = s[j]

\* every "//" of s is immediately preceded by a colon
OnlyUrlSlashes(s) ==
    \A i \in 1..Len(s) : SlashesAt(s, i) => (i > 1 /\ s[i - 1] = ":")

\* line-comment stripping as a deletion of the comment text alone: the
\* character before "//" is kept, "//" to the end of the line is dropped
RECURSIVE CommentTextOnlyFrom(_, _)
CommentTextOnlyFrom(s, i) ==
    IF i > Len(s) THEN << >>
    ELSE IF TriggerAt(s, i)
         THEN << s[i] >> \o CommentTextOnlyFrom(s, LineEnd(s, i + 3))
    ELSE << s[i] >> \o CommentTextOnlyFrom(s, i + 1)

CommentTextOnly(s) == CommentTextOnlyFrom(s, 1)

\* the positions where "/*" and "*/" start
Opens(s) == { i \in 1..Len(s) : At(s, i, "/") /\ At(s, i + 1, "*") }

Closes(s) == { j \in 1..Len(s) : At(s, j, "*") /\ At(s, j + 1, "/") }

\* s holds a complete block comment: a "/*" with a "*/" after it
HasBlockComment(s) ==
    \E i \in Opens(s) : \E j \in Closes(s) : j >= i + 2

\* s holds a line-comment marker that is not the "//" of a "://"
HasLineComment(s) ==
    \E i \in 1..Len(s) : SlashesAt(s, i) /\ ~(i > 1 /\ s[i - 1] = ":")

\* block-comment stripping told by cutting, not by scanning: cut the text
\* from the first "/*" to the nearest "*/" after it, and go on in what
\* follows; a "/*" with no "*/" after it ends the cutting
RECURSIVE CutBlocks(_)
CutBlocks(s) ==
    IF ~HasBlockComment(s) THEN s
    ELSE LET i == Least({ o \in Opens(s) : \E c \in Closes(s) : c >= o + 2 })
             j == Least({ c \in Closes(s) : c >= i + 2 })
         IN  SubSeq(s, 1, i - 1) \o CutBlocks(SubSeq(s, j + 2, Len(s)))

IsNotNewline(c) == c # "\n"

\* n spaces
RECURSIVE Spaces(_)
Spaces(n) == IF n = 0 THEN << >> ELSE << " " >> \o Spaces(n - 1)

\* the length of the run of spaces s begins with
LeadingSpaces(s) ==
    CHOOSE n \in 0..Len(s) :
        /\ \A k \in 1..n : s[k] = " "
        /\ (n = Len(s) \/ s[n + 1] # " ")

\* four-space removal told run by run: a maximal run of n spaces keeps
\* n mod 4 of them, everything else is kept
RECURSIVE RunsModFour(_)
RunsModFour(s) ==
    IF s = << >> THEN << >>
    ELSE IF s[1] # " " THEN << s[1] >> \o RunsModFour(Tail(s))
    ELSE LET n == LeadingSpaces(s)
         IN  Spaces(n % 4) \o RunsModFour(SubSeq(s, n + 1, Len(s)))

HasFourSpaces(s) == \E i \in 1..Len(s) : \A k \in 0..3 : At(s, i + k, " ")

-----------------------------------------------------------------------------
(* The properties.                                                         *)

\* C1: whatever the source text, the text written starts with the prefix
\* javascript:(()=>{ and ends with the suffix })(), and what lies between
\* them is exactly the comment-stripped, whitespace-collapsed body.
C1_WrappedOutput ==
    pc \in Written =>
        LET w == outFile.data
            n == Len(w)
        IN  /\ outFile.exists
            /\ n = Len(Prefix) + Len(Body(Source)) + Len(Suffix)
            /\ SubSeq(w, 1, Len(Prefix)) = Prefix
            /\ SubSeq(w, n - Len(Suffix) + 1, n) = Suffix
            /\ SubSeq(w, Len(Prefix) + 1, n - Len(Suffix)) = Body(Source)

C1_Witness ==
    /\ pc = "done"
    /\ Source = WrapperExample
    /\ outFile.data = Prefix \o WrapperExample \o Suffix

\* C2: when plugin.js is missing or unreadable the run stops at the read:
\* neither plugin-inline.js nor the frontend copy is created, truncated or
\* modified, in any state of the run.
C2_ReadFailureWritesNothing ==
    ~(srcFile.exists /\ srcFile.readable) =>
        /\ pc \in { "read", "readError" }
        /\ outFile = out0
        /\ frontFile = front0

C2_Witness ==
    /\ pc = "readError"
    /\ ~srcFile.exists
    /\ outFile = OldFile
    /\ frontFile = Absent

\* C3: when a run completes, both destinations hold the same content and it
\* is exactly the final text of this run, whatever they held before.
C3_BothDestinationsIdentical ==
    pc = "done" =>
        /\ outFile.exists /\ frontFile.exists
        /\ outFile.data = frontFile.data
        /\ outFile.data = content
        /\ content = Wrap(Body(Source))

C3_Witness ==
    /\ pc = "done"
    /\ out0 = OldFile
    /\ front0 = Absent
    /\ Source = LineCommentExample
    /\ frontFile = outFile

\* C4: line-comment stripping deletes only the comment text, from "//" up to
\* the end of the line; the character before "//" and the newline are kept,
\* so "const x = 1; // comment\nconst y = 2;" gives
\* "const x = 1; \nconst y = 2;".
C4_OnlyCommentTextDeleted ==
    pc = "unitLine" =>
        /\ content = CommentTextOnly(Source)
        /\ (Source = LineCommentExample => content = LineCommentExpected)

\* C5: a line-comment removal starts only at a "//" that follows a
\* whitespace or word character and is not followed by a third slash; a text
\* whose every "//" follows a colon, such as fetch("https://example.com"),
\* is returned unchanged.
C5_RemovalNeedsTrigger ==
    pc = "unitLine" =>
        /\ (Triggers(Source) = {} => content = Source)
        /\ (Triggers(Source) # {} =>
                SamePrefix(Source, content, Least(Triggers(Source)) - 1))
        /\ (OnlyUrlSlashes(Source) => content = Source)
        /\ (Source = UrlExample => content = UrlExample)

C5_Witness ==
    /\ pc = "unitLine"
    /\ Source = UrlExample
    /\ content = UrlExample

\* C6: block-comment stripping removes every stretch from a "/*" to the
\* nearest "*/" after it, across lines; comments do not nest, a "/*" with no
\* "*/" after it stays, and the text outside the removed stretches is kept
\* in order.  "/* header\nmulti\nline */\ncode();" gives "\ncode();".
C6_BlockCommentsCut ==
    pc = "unitBlock" =>
        /\ content = CutBlocks(Source)
        /\ (~HasBlockComment(Source) => content = Source)
        /\ (Source = BlockCommentExample => content = BlockCommentExpected)
        /\ (Source = NestedBlockExample => content = NestedBlockExpected)
        /\ (Source = UnclosedBlockExample => content = UnclosedBlockExample)

C6_Witness ==
    /\ pc = "unitBlock"
    /\ Source = BlockCommentExample
    /\ content = BlockCommentExpected

\* C7: whitespace collapsing deletes every newline, then deletes
\* non-overlapping groups of four spaces from left to right and nothing
\* else: a maximal run of n spaces keeps n mod 4 of them, eight spaces
\* before x give x, three spaces and tabs are kept, and the result has no
\* newline and no four spaces in a row.
C7_RunsKeepRemainder ==
    pc = "unitCollapse" =>
        /\ content = RunsModFour(SelectSeq(Source, IsNotNewline))
        /\ \A i \in 1..Len(content) : content[i] # "\n"
        /\ ~HasFourSpaces(content)
        /\ (Source = EightSpacesExample => content = << "x" >>)
        /\ (Source = ThreeSpacesExample => content = ThreeSpacesExample)
        /\ (Source = TabsExample => content = TabsExample)

C7_Witness ==
    /\ pc = "unitCollapse"
    /\ Source = EightSpacesExample
    /\ content = << "x" >>

\* C8: the text is transformed in this order: line comments, block
\* comments, newlines, four-space groups, wrapping; so the text written for
\* a source with neither "//" nor "/*" is wrap(collapseWhitespace(source)).
C8_StepsInOrder ==
    LET l == StripLineComments(Source)
        b == StripBlockComments(l)
        n == RemoveNewlines(b)
        r == RemoveIndent(n)
    IN  /\ (pc = "stripLine" => content = Source)
        /\ (pc = "stripBlock" => content = l)
        /\ (pc = "rmNewline" => content = b)
        /\ (pc = "rmIndent" => content = n)
        /\ (pc = "wrap" => content = r)
        /\ (pc \in Written => outFile.data = Wrap(r))
        /\ (pc \in Written /\ ~(\E i \in 1..Len(Source) : SlashesAt(Source, i))
                           /\ Opens(Source) = {}
                => outFile.data = Wrap(CollapseWhitespace(Source)))

C8_Witness ==
    /\ pc = "done"
    /\ Source = EightSpacesExample
    /\ outFile.data = Wrap(<< "x" >>)

\* C9: when the newlines are removed the comments are gone: the text left
\* by the two stripping steps holds no line-comment marker outside "://"
\* (not at the start of the text, not after punctuation) and no complete
\* block comment.
C9_NoCommentLeft ==
    pc = "rmNewline" =>
        /\ ~HasLineComment(content)
        /\ ~HasBlockComment(content)

\* C10 as stated: plugin-inline.js is completely written before the copy is
\* attempted; when the copy fails, plugin-inline.js holds the new text and
\* the frontend file is not updated by the run; the frontend file is never
\* touched while plugin-inline.js lacks the new text.
C10_FrontendUntouchedOnCopyError ==
    /\ (pc \in { "copyOpen", "copyData", "copyStat" } =>
            outFile = File(content))
    /\ (pc = "copyError" => outFile = File(content) /\ frontFile = front0)
    /\ (frontFile # front0 => outFile = File(content))

\* C10 amended: as above, but when the copy fails the frontend file is
\* either untouched (it could not be opened), cut down to a proper prefix of
\* the new text (the copy failed part-way), or holds the whole new text
\* (only the metadata copy failed).
C10_LocalFirstNoRollback ==
    /\ (pc \in { "copyOpen", "copyData", "copyStat" } =>
            outFile = File(content))
    /\ (pc = "copyError" =>
            /\ outFile = File(content)
            /\ \/ frontFile = front0
               \/ frontFile.exists /\ frontFile.data \in ProperPrefixes(content)
               \/ frontFile = File(content))
    /\ (frontFile # front0 => outFile = File(content))

C10_Witness ==
    /\ pc = "copyError"
    /\ out0 = OldFile
    /\ outFile = File(content)
    /\ front0 = Absent
    /\ frontFile = Absent

====
